---- MODULE Spec2Model ----
(***************************************************************************)
(* A model of the zk-timeseries core: the TimeSeries operators, the        *)
(* f64 <-> uint256 fixed-point codec (both copies), the Keccak commitment  *)
(* over the raw series and the two public-values assemblers, together with *)
(* the zkVM programs that run them.                                        *)
(*                                                                         *)
(* Numbers.  An f64 is modelled as a decimal floating-point number         *)
(*   [k |-> "fin", s |-> sign, m |-> significand, e |-> exponent]          *)
(* of value (-1)^s * m * 10^e with at most Prec significant digits, plus   *)
(* [k |-> "nan"] and [k |-> "inf", s |-> sign].  Every arithmetic          *)
(* operation rounds its exact result to nearest, ties to even, as IEEE-754 *)
(* does; only the radix (10 for 2) and the precision (Prec digits for 53   *)
(* bits) differ.  Negative zero is not distinguished from zero.            *)
(* Unsigned machine integers wider than 31 bits (u64, u128, U256) are      *)
(* big-endian byte sequences of their width.                               *)
(***************************************************************************)
EXTENDS Integers, Sequences, FiniteSets, TLC

\* ------------------------------------------------------------- bounds
\* longest input vector read from the prover
MaxLen == 3
\* significant decimal digits kept by the model's floating point
Prec == 3
\* largest window size / forecast horizon tried
MaxWindow == 3
MaxHorizon == 2
\* the binary64 operands of the codec are the seeds times 2^k, |k| <= MaxShift
MaxShift == 8
\* longest chain of transforms tried
MaxChain == 2

\* ---------------------------------------------------- small arithmetic
RECURSIVE Pow10(_)
Pow10(k) ==
    IF k <= 0 THEN 1 ELSE 10 * Pow10(k - 1)

RECURSIVE NDigits(_)
NDigits(n) ==
    IF n < 10 THEN 1 ELSE 1 + NDigits(n \div 10)

Min(a, b) ==
    IF a <= b THEN a ELSE b

Max(a, b) ==
    IF a >= b THEN a ELSE b

Abs(n) ==
    IF n < 0 THEN -n ELSE n

\* -------------------------------------------- big-endian byte integers
Zeros(w) ==
    [i \in 1..w |-> 0]

MaxBytes(w) ==
    [i \in 1..w |-> 255]

\* n.to_be_bytes() at width w, for an n that fits the model's integers
RECURSIVE NatToBytes(_, _)
NatToBytes(n, w) ==
    IF w = 0 THEN <<>> ELSE Append(NatToBytes(n \div 256, w - 1), n % 256)

IsZeroBytes(b) ==
    \A i \in 1..Len(b) : b[i] = 0

\* b * k + c over the digits of b in the given base, from digit i down to
\* the first, acc being the digits already produced: [val, carry], carry being
\* what left the width
RECURSIVE MulAddFrom(_, _, _, _, _, _)
MulAddFrom(b, k, i, c, acc, base) ==
    IF i = 0 THEN [val |-> acc, carry |-> c]
    ELSE MulAddFrom(b, k, i - 1, (b[i] * k + c) \div base,
                    <<(b[i] * k + c) % base>> \o acc, base)

MulAddBytes(b, k, c) ==
    MulAddFrom(b, k, Len(b), c, <<>>, 256)

\* a + b + c over equal widths: [val, carry]
RECURSIVE AddFrom(_, _, _, _, _, _)
AddFrom(a, b, i, c, acc, base) ==
    IF i = 0 THEN [val |-> acc, carry |-> c]
    ELSE AddFrom(a, b, i - 1, (a[i] + b[i] + c) \div base,
                 <<(a[i] + b[i] + c) % base>> \o acc, base)

\* a - b - c over equal widths: [val, borrow], val being the wrapped difference
RECURSIVE SubFrom(_, _, _, _, _, _)
SubFrom(a, b, i, c, acc, base) ==
    IF i = 0 THEN [val |-> acc, borrow |-> c]
    ELSE SubFrom(a, b, i - 1, IF a[i] - b[i] - c < 0 THEN 1 ELSE 0,
                 <<(a[i] - b[i] - c + base) % base>> \o acc, base)

\* ------------------------------------------------------------------ u64
\* a u64 is its four 16-bit digits, most significant first
U64Base == 65536

RECURSIVE U64FromNat4(_, _)
U64FromNat4(n, w) ==
    IF w = 0 THEN <<>> ELSE Append(U64FromNat4(n \div U64Base, w - 1), n % U64Base)

\* n as u64, for an n that fits the model's integers
U64FromNat(n) ==
    U64FromNat4(n, 4)

\* u64::to_be_bytes
U64ToBeBytes(u) ==
    [j \in 1..8 |-> IF j % 2 = 1 THEN u[(j + 1) \div 2] \div 256
                    ELSE u[j \div 2] % 256]

\* a * k on u64, k a small integer: [val, carry]
U64Mul(a, k) ==
    MulAddFrom(a, k, 4, 0, <<>>, U64Base)

\* a + b on u64: [val, carry]
U64Add(a, b) ==
    AddFrom(a, b, 4, 0, <<>>, U64Base)

\* a - b on u64: [val, borrow]
U64Sub(a, b) ==
    SubFrom(a, b, 4, 0, <<>>, U64Base)

\* b * 10^e over Len(b) bytes: [val, overflow]
RECURSIVE MulPow10Bytes(_, _)
MulPow10Bytes(b, e) ==
    IF e <= 0 \/ IsZeroBytes(b) THEN [val |-> b, overflow |-> FALSE]
    ELSE LET step == Min(e, 4)
             r    == MulAddBytes(b, Pow10(step), 0)
         IN IF r.carry # 0 THEN [val |-> r.val, overflow |-> TRUE]
            ELSE MulPow10Bytes(r.val, e - step)

\* b div k and b mod k for a small k, from byte i on, rem being what the
\* bytes before i left: [val, rem]
RECURSIVE DivModFrom(_, _, _, _, _)
DivModFrom(b, k, i, rem, acc) ==
    IF i > Len(b) THEN [val |-> acc, rem |-> rem]
    ELSE DivModFrom(b, k, i + 1, (rem * 256 + b[i]) % k,
                    Append(acc, (rem * 256 + b[i]) \div k))

DivBytes(b, k) ==
    DivModFrom(b, k, 1, 0, <<>>)

\* left-pad a big-endian integer with zero bytes to width w
PadLeft(b, w) ==
    Zeros(w - Len(b)) \o b

\* ------------------------------------------------- floating point (f64)
\* decimal exponent range of an f64: values of 10^309 and above are
\* infinite, values below 10^-324 are zero
MaxExp10 == 308
MinExp10 == -324

NaN == [k |-> "nan"]

Inf(s) == [k |-> "inf", s |-> s]

Zero == [k |-> "fin", s |-> 0, m |-> 0, e |-> 0]

IsNaN(a) == a.k = "nan"

IsInf(a) == a.k = "inf"

IsFin(a) == a.k = "fin"

IsZero(a) == a.k = "fin" /\ a.m = 0

\* the canonical float of sign s and magnitude m * 10^e, m of <= Prec digits
RECURSIVE Canon(_, _, _)
Canon(s, m, e) ==
    IF m = 0 THEN Zero
    ELSE IF m % 10 = 0 THEN Canon(s, m \div 10, e + 1)
    ELSE IF e + NDigits(m) > MaxExp10 + 1 THEN Inf(s)
    ELSE IF e + NDigits(m) <= MinExp10 THEN Zero
    ELSE [k |-> "fin", s |-> s, m |-> m, e |-> e]

\* round n * 10^e (+ something below one unit of n when sticky) to Prec
\* digits, to nearest, ties to even
Round(s, n, e, sticky) ==
    LET d == NDigits(n) - Prec
    IN IF d <= 0 THEN Canon(s, n, e)
       ELSE LET h  == Pow10(d)
                q  == n \div h
                r  == n % h
                up == 2 * r > h \/ (2 * r = h /\ (sticky \/ q % 2 = 1))
            IN Canon(s, IF up THEN q + 1 ELSE q, e + d)

\* a literal: m * 10^e, negative when m is
Lit(m, e) ==
    Round(IF m < 0 THEN 1 ELSE 0, Abs(m), e, FALSE)

\* n as f64, for a usize n
FromNat(n) ==
    Round(0, n, 0, FALSE)

\* position of the leading digit
Top(a) ==
    a.e + NDigits(a.m)

FNeg(a) ==
    IF IsNaN(a) THEN NaN
    ELSE IF IsInf(a) THEN Inf(1 - a.s)
    ELSE IF a.m = 0 THEN Zero
    ELSE [a EXCEPT !.s = 1 - a.s]

\* f64::abs
FAbs(a) ==
    IF IsNaN(a) THEN NaN
    ELSE IF IsInf(a) THEN Inf(0)
    ELSE [a EXCEPT !.s = 0]

FAdd(a, b) ==
    IF IsNaN(a) \/ IsNaN(b) THEN NaN
    ELSE IF IsInf(a) THEN (IF IsInf(b) /\ b.s # a.s THEN NaN ELSE a)
    ELSE IF IsInf(b) THEN b
    ELSE IF a.m = 0 THEN b
    ELSE IF b.m = 0 THEN a
    ELSE IF Top(a) - Top(b) > Prec + 1 THEN a
    ELSE IF Top(b) - Top(a) > Prec + 1 THEN b
    ELSE LET lo == Min(a.e, b.e)
             va == (IF a.s = 1 THEN -1 ELSE 1) * a.m * Pow10(a.e - lo)
             vb == (IF b.s = 1 THEN -1 ELSE 1) * b.m * Pow10(b.e - lo)
             v  == va + vb
         IN Round(IF v < 0 THEN 1 ELSE 0, Abs(v), lo, FALSE)

FSub(a, b) ==
    FAdd(a, FNeg(b))

FMul(a, b) ==
    IF IsNaN(a) \/ IsNaN(b) THEN NaN
    ELSE IF IsInf(a) \/ IsInf(b)
         THEN (IF IsZero(a) \/ IsZero(b) THEN NaN ELSE Inf((a.s + b.s) % 2))
    ELSE Round((a.s + b.s) % 2, a.m * b.m, a.e + b.e, FALSE)

FDiv(a, b) ==
    IF IsNaN(a) \/ IsNaN(b) THEN NaN
    ELSE IF IsInf(a) THEN (IF IsInf(b) THEN NaN ELSE Inf((a.s + b.s) % 2))
    ELSE IF IsInf(b) THEN Zero
    ELSE IF b.m = 0 THEN (IF a.m = 0 THEN NaN ELSE Inf((a.s + b.s) % 2))
    ELSE IF a.m = 0 THEN Zero
    ELSE LET sh == 2 * Prec + 1 - NDigits(a.m)
             n  == a.m * Pow10(sh)
         IN Round((a.s + b.s) % 2, n \div b.m, a.e - sh - b.e, n % b.m # 0)

\* floor of the square root of n
RECURSIVE ISqrt(_, _, _)
ISqrt(n, lo, hi) ==
    IF lo >= hi THEN lo
    ELSE LET mid == (lo + hi + 1) \div 2
         IN IF mid * mid <= n THEN ISqrt(n, mid, hi) ELSE ISqrt(n, lo, mid - 1)

\* f64::sqrt
FSqrt(a) ==
    IF IsNaN(a) THEN NaN
    ELSE IF IsZero(a) THEN Zero
    ELSE IF a.s = 1 THEN NaN
    ELSE IF IsInf(a) THEN a
    ELSE LET sh0 == 2 * Prec + 1 - NDigits(a.m)
             sh  == IF (a.e - sh0) % 2 = 0 THEN sh0 ELSE sh0 - 1
             n   == a.m * Pow10(sh)
             r   == ISqrt(n, 0, 40000)
         IN IF NDigits(r) > Prec THEN Round(0, r, (a.e - sh) \div 2, r * r # n)
            ELSE Canon(0, IF n - r * r > r THEN r + 1 ELSE r, (a.e - sh) \div 2)

\* a < b, for a and b that are not NaN
FLess(a, b) ==
    IF IsInf(a) THEN a.s = 1 /\ ~(IsInf(b) /\ b.s = 1)
    ELSE IF IsInf(b) THEN b.s = 0
    ELSE LET d == FSub(a, b) IN d.m # 0 /\ d.s = 1

\* a <= b as f64 compares: false when either is NaN
FLe(a, b) ==
    ~IsNaN(a) /\ ~IsNaN(b) /\ ~FLess(b, a)

\* ------------------------------------------------------------- outcomes
\* a call either returns a value or panics (aborts the run) with a message
Ok(v) == [ok |-> TRUE, val |-> v]

Panic(msg) == [ok |-> FALSE, panic |-> msg]

LengthMismatchMsg == "Timestamps and values must have the same length"

AlphaMsg == "Alpha must be between 0 and 1"

IndexMsg == "index out of bounds"

UnwrapNoneMsg == "called Option::unwrap() on a None value"

UnwrapErrMsg == "called Result::unwrap() on an Err value"

SubOverflowMsg == "attempt to subtract with overflow"

MulOverflowMsg == "attempt to multiply with overflow"

AddOverflowMsg == "attempt to add with overflow"

\* ----------------------------------------------------------- TimeSeries
\* TimeSeries::new without its length assertion
TimeSeries_new_unchecked(ts, vs) ==
    Ok([timestamps |-> ts, values |-> vs])

\* TimeSeries::new
TimeSeries_new(ts, vs) ==
    IF Len(ts) # Len(vs) THEN Panic(LengthMismatchMsg)
    ELSE Ok([timestamps |-> ts, values |-> vs])

\* iter().sum::<f64>(): left to right from 0.0
RECURSIVE FSum(_)
FSum(v) ==
    IF Len(v) = 0 THEN Zero
    ELSE FAdd(FSum(SubSeq(v, 1, Len(v) - 1)), v[Len(v)])

\* TimeSeries::mean
mean(self) ==
    FDiv(FSum(self.values), FromNat(Len(self.values)))

RECURSIVE InsertSorted(_, _)
InsertSorted(sorted, v) ==
    IF Len(sorted) = 0 THEN <<v>>
    ELSE IF FLess(v, sorted[Len(sorted)])
         THEN Append(InsertSorted(SubSeq(sorted, 1, Len(sorted) - 1), v),
                     sorted[Len(sorted)])
    ELSE Append(sorted, v)

\* the values left in the order of the series
SortValues_unsorted(v) ==
    v

\* sort_by(|a, b| a.partial_cmp(b).unwrap()) on values without NaN (stable)
RECURSIVE SortValues(_)
SortValues(v) ==
    IF Len(v) = 0 THEN <<>>
    ELSE InsertSorted(SortValues(SubSeq(v, 1, Len(v) - 1)), v[Len(v)])

\* TimeSeries::median.  Sorting two or more values compares every one of
\* them, and partial_cmp(..).unwrap() panics on a NaN operand.  On an empty
\* series mid - 1 underflows: a panic with overflow checks, a wrapped index
\* (out of bounds) without.
median(self, checks) ==
    LET n      == Len(self.values)
        sorted == SortValues(self.values)
        mid    == n \div 2
    IN IF n >= 2 /\ \E i \in 1..n : IsNaN(self.values[i]) THEN Panic(UnwrapNoneMsg)
       ELSE IF n % 2 = 0
            THEN (IF mid = 0
                  THEN Panic(IF checks THEN SubOverflowMsg ELSE IndexMsg)
                  ELSE Ok(FDiv(FAdd(sorted[mid], sorted[mid + 1]), Lit(2, 0))))
       ELSE Ok(sorted[mid + 1])

\* TimeSeries::std_dev
std_dev(self) ==
    LET mu == mean(self)
        sq == [i \in 1..Len(self.values) |->
                  FMul(FSub(self.values[i], mu), FSub(self.values[i], mu))]
    IN FSqrt(FDiv(FSum(sq), FromNat(Len(self.values))))

\* a window start one element too early once the window is full
WindowStart_one_early(i, window_size) ==
    IF i < window_size THEN 0 ELSE i - window_size

\* the window start of moving_average at 0-based index i
WindowStart(i, window_size) ==
    IF i < window_size THEN 0 ELSE i - window_size + 1

\* TimeSeries::moving_average
moving_average(self, window_size) ==
    LET ma_values ==
            [j \in 1..Len(self.values) |->
                LET i      == j - 1
                    start  == WindowStart(i, window_size)
                    window == SubSeq(self.values, start + 1, i + 1)
                IN FDiv(FSum(window), FromNat(Len(window)))]
    IN TimeSeries_new(self.timestamps, ma_values)

\* the range of the doc comment, 0 < alpha <= 1, instead of the closed one
AlphaInRange_open_at_zero(alpha) ==
    FLe(Zero, alpha) /\ ~IsZero(alpha) /\ FLe(alpha, Lit(1, 0))

\* (0.0..=1.0).contains(&alpha)
AlphaInRange(alpha) ==
    FLe(Zero, alpha) /\ FLe(alpha, Lit(1, 0))

\* the smoothing recurrence shared by both smoothing operators, 1-based
RECURSIVE Smooth(_, _, _)
Smooth(v, alpha, i) ==
    IF i = 1 THEN v[1]
    ELSE FAdd(FMul(alpha, v[i]),
              FMul(FSub(Lit(1, 0), alpha), Smooth(v, alpha, i - 1)))

\* TimeSeries::exponential_moving_average
exponential_moving_average(self, alpha) ==
    IF ~AlphaInRange(alpha) THEN Panic(AlphaMsg)
    ELSE IF Len(self.values) = 0 THEN Panic(IndexMsg)
    ELSE TimeSeries_new(self.timestamps,
                        [i \in 1..Len(self.values) |-> Smooth(self.values, alpha, i)])

\* a step of 1 whatever the series
TimeStep_unit(ts, checks) ==
    Ok(U64FromNat(1))

\* timestamps[1] - timestamps[0] on u64: panics with overflow checks, wraps
\* without
TimeStep(ts, checks) ==
    IF Len(ts) > 1
    THEN LET d == U64Sub(ts[2], ts[1])
         IN IF d.borrow # 0 /\ checks THEN Panic(SubOverflowMsg) ELSE Ok(d.val)
    ELSE Ok(U64FromNat(1))

\* last_timestamp + i as u64 * time_step on u64, for i = from..horizon
RECURSIVE ForecastTimestamps(_, _, _, _, _)
ForecastTimestamps(last, step, from, horizon, checks) ==
    IF from > horizon THEN Ok(<<>>)
    ELSE LET p == U64Mul(step, from)
             a == U64Add(last, p.val)
         IN IF p.carry # 0 /\ checks THEN Panic(MulOverflowMsg)
            ELSE IF a.carry # 0 /\ checks THEN Panic(AddOverflowMsg)
            ELSE LET rest == ForecastTimestamps(last, step, from + 1, horizon, checks)
                 IN IF rest.ok THEN Ok(<<a.val>> \o rest.val) ELSE rest

\* simple_exponential_smoothing continuing with the last input value instead
\* of the last smoothed one
simple_exponential_smoothing_last_input(self, alpha, horizon, checks) ==
    IF ~AlphaInRange(alpha) THEN Panic(AlphaMsg)
    ELSE IF Len(self.values) = 0 THEN Panic(IndexMsg)
    ELSE IF Len(self.timestamps) = 0 THEN Panic(UnwrapNoneMsg)
    ELSE LET n        == Len(self.values)
             smooth   == [i \in 1..n |-> Smooth(self.values, alpha, i)]
             forecast == smooth \o [i \in 1..horizon |-> self.values[n]]
             last     == self.timestamps[Len(self.timestamps)]
             step     == TimeStep(self.timestamps, checks)
         IN IF ~step.ok THEN step
            ELSE LET more == ForecastTimestamps(last, step.val, 1, horizon, checks)
                 IN IF ~more.ok THEN more
                    ELSE TimeSeries_new(self.timestamps \o more.val, forecast)

\* TimeSeries::simple_exponential_smoothing
simple_exponential_smoothing(self, alpha, horizon, checks) ==
    IF ~AlphaInRange(alpha) THEN Panic(AlphaMsg)
    ELSE IF Len(self.values) = 0 THEN Panic(IndexMsg)
    ELSE IF Len(self.timestamps) = 0 THEN Panic(UnwrapNoneMsg)
    ELSE LET n        == Len(self.values)
             smooth   == [i \in 1..n |-> Smooth(self.values, alpha, i)]
             forecast == smooth \o [i \in 1..horizon |-> smooth[n]]
             last     == self.timestamps[Len(self.timestamps)]
             step     == TimeStep(self.timestamps, checks)
         IN IF ~step.ok THEN step
            ELSE LET more == ForecastTimestamps(last, step.val, 1, horizon, checks)
                 IN IF ~more.ok THEN more
                    ELSE TimeSeries_new(self.timestamps \o more.val, forecast)

\* ---------------------------------------------------------------- codec
\* `f as u128` for f >= 0: truncates toward zero, NaN gives 0, a value above
\* u128::MAX (infinity included) gives u128::MAX.  The result is the 16
\* big-endian bytes of the integer.
F64AsU128(f) ==
    IF IsNaN(f) THEN Zeros(16)
    ELSE IF IsInf(f) THEN (IF f.s = 1 THEN Zeros(16) ELSE MaxBytes(16))
    ELSE IF f.s = 1 THEN Zeros(16)
    ELSE IF f.e >= 0
         THEN LET p == MulPow10Bytes(NatToBytes(f.m, 16), f.e)
              IN IF p.overflow THEN MaxBytes(16) ELSE p.val
    ELSE IF -f.e >= NDigits(f.m) THEN Zeros(16)
    ELSE NatToBytes(f.m \div Pow10(-f.e), 16)

\* f64_to_u256 of crates/lib-timeseries without the abs()
f64_to_u256_signed(value) ==
    LET scaled_value == F64AsU128(FMul(value, Lit(1, 18)))
        bytes        == scaled_value
        padded_bytes == Zeros(16) \o bytes
    IN padded_bytes

\* f64_to_u256 of crates/lib-timeseries: the 32 big-endian bytes of the U256
f64_to_u256(value) ==
    LET scaled_value == F64AsU128(FMul(FAbs(value), Lit(1, 18)))
        bytes        == scaled_value
        padded_bytes == Zeros(16) \o bytes
    IN padded_bytes

\* vec_f64_to_u256 of crates/lib-timeseries
vec_f64_to_u256(values) ==
    [i \in 1..Len(values) |-> f64_to_u256(values[i])]

\* format!("{:.0}", f) for f >= 0: the decimal text of f rounded to an
\* integer (to nearest, ties to even), as the integer m * 10^e, or the text
\* "NaN" / "inf"
FormatPrec0(f) ==
    IF IsNaN(f) THEN [text |-> "NaN"]
    ELSE IF IsInf(f) THEN [text |-> "inf"]
    ELSE IF f.e >= 0 THEN [text |-> "digits", m |-> f.m, e |-> f.e]
    ELSE IF -f.e > NDigits(f.m) THEN [text |-> "digits", m |-> 0, e |-> 0]
    ELSE LET h  == Pow10(-f.e)
             q  == f.m \div h
             r  == f.m % h
             up == 2 * r > h \/ (2 * r = h /\ q % 2 = 1)
         IN [text |-> "digits", m |-> IF up THEN q + 1 ELSE q, e |-> 0]

\* U256::from_dec_str: an error for text that is no decimal number or that
\* exceeds 256 bits
from_dec_str(t) ==
    IF t.text # "digits" THEN Panic(UnwrapErrMsg)
    ELSE LET p == MulPow10Bytes(NatToBytes(t.m, 32), t.e)
         IN IF p.overflow THEN Panic(UnwrapErrMsg) ELSE Ok(p.val)

\* f64_to_u256 of lib: from_dec_str(..).unwrap()
lib_f64_to_u256(value) ==
    from_dec_str(FormatPrec0(FMul(FAbs(value), Lit(1, 18))))

\* the value of the last three bytes of b
Low3(b) ==
    b[Len(b) - 2] * 65536 + b[Len(b) - 1] * 256 + b[Len(b)]

\* the unsigned integer b * 10^e (+ something below 10^e when sticky) rounded
\* to an f64, to nearest, ties to even
RECURSIVE RoundBytes(_, _, _)
RoundBytes(b, e, sticky) ==
    IF IsZeroBytes(SubSeq(b, 1, Len(b) - 3)) /\ Low3(b) < Pow10(Prec + 1)
    THEN Round(0, Low3(b), e, sticky)
    ELSE LET d == DivBytes(b, 10)
         IN RoundBytes(d.val, e + 1, sticky \/ d.rem # 0)

\* `n as f64` for a u128 n
U128AsF64(n) ==
    RoundBytes(n, 0, FALSE)

\* u256_to_f64 of crates/lib-timeseries: only the low 16 bytes are read
u256_to_f64(value) ==
    LET bytes      == value
        u128_value == SubSeq(bytes, 17, 32)
    IN FDiv(U128AsF64(u128_value), Lit(1, 18))

\* U256::to_string: the decimal digits, most significant first
\* (a U256 has no more than 78 digits)
RECURSIVE DigitsOf(_, _)
DigitsOf(b, acc) ==
    LET d == DivBytes(b, 10)
    IN IF IsZeroBytes(d.val) \/ Len(acc) >= 78 THEN <<d.rem>> \o acc
       ELSE DigitsOf(d.val, <<d.rem>> \o acc)

to_string(b) ==
    DigitsOf(b, <<>>)

\* the integer the digits t[1..n] spell
RECURSIVE DigitsValue(_, _)
DigitsValue(t, n) ==
    IF n = 0 THEN 0 ELSE 10 * DigitsValue(t, n - 1) + t[n]

\* str::parse::<f64> on a string of decimal digits: the nearest f64
parse_f64(t) ==
    LET keep == Min(Len(t), Prec + 1)
    IN Round(0, DigitsValue(t, keep), Len(t) - keep,
             \E i \in keep + 1..Len(t) : t[i] # 0)

\* u256_to_f64 of lib
lib_u256_to_f64(value) ==
    FDiv(parse_f64(to_string(value)), Lit(1, 18))

\* ------------------------------------------ the codec on binary64 operands
\* Scaling by 10^18 is exact in radix 10 and rounded in radix 2, so where the
\* rounding of value * 1e18 and of n / 1e18 is what matters the operand is an
\* IEEE-754 binary64: [k |-> "b64", s |-> sign, m |-> significand, e |->
\* exponent] of value (-1)^s * m * 2^e, m an odd integer below 2^53 held as 8
\* big-endian bytes (m = 0, e = 0 for zero).  Intermediate integers are 32
\* bytes wide.  The operands stay far from the ends of the exponent range, so
\* neither infinities nor subnormals arise.
RECURSIVE Pow2(_)
Pow2(k) ==
    IF k <= 0 THEN 1 ELSE 2 * Pow2(k - 1)

\* number of bits of a small integer
RECURSIVE NBits(_)
NBits(n) ==
    IF n = 0 THEN 0 ELSE 1 + NBits(n \div 2)

\* number of bits of a byte integer, from byte i on
RECURSIVE BitLenFrom(_, _)
BitLenFrom(b, i) ==
    IF i > Len(b) THEN 0
    ELSE IF b[i] # 0 THEN 8 * (Len(b) - i) + NBits(b[i])
    ELSE BitLenFrom(b, i + 1)

BitLen(b) ==
    BitLenFrom(b, 1)

\* b * 2^d within Len(b) bytes: [val, overflow]
RECURSIVE ShiftLeft(_, _)
ShiftLeft(b, d) ==
    IF d <= 0 \/ IsZeroBytes(b) THEN [val |-> b, overflow |-> FALSE]
    ELSE LET step == Min(d, 16)
             r    == MulAddBytes(b, Pow2(step), 0)
         IN IF r.carry # 0 THEN [val |-> r.val, overflow |-> TRUE]
            ELSE ShiftLeft(r.val, d - step)

\* b div 2^d: [val, sticky], sticky telling whether a set bit was shifted out
RECURSIVE ShiftRight(_, _, _)
ShiftRight(b, d, sticky) ==
    IF d <= 0 \/ IsZeroBytes(b) THEN [val |-> b, sticky |-> sticky]
    ELSE LET step == Min(d, 16)
             r    == DivBytes(b, Pow2(step))
         IN ShiftRight(r.val, d - step, sticky \/ r.rem # 0)

\* the binary64 of magnitude b * 2^e, b of at most 53 bits: trailing zero
\* bits moved into the exponent
RECURSIVE BNorm(_, _, _)
BNorm(s, b, e) ==
    IF IsZeroBytes(b) THEN [k |-> "b64", s |-> 0, m |-> Zeros(8), e |-> 0]
    ELSE IF b[Len(b)] = 0 THEN BNorm(s, DivBytes(b, 256).val, e + 8)
    ELSE IF b[Len(b)] % 2 = 0 THEN BNorm(s, DivBytes(b, 2).val, e + 1)
    ELSE [k |-> "b64", s |-> s, m |-> SubSeq(b, Len(b) - 7, Len(b)), e |-> e]

\* b * 2^e (+ something below 2^e when sticky) rounded to 53 bits, to
\* nearest, ties to even
RoundBits(s, b, e, sticky) ==
    LET d == BitLen(b) - 53
    IN IF d <= 0 THEN BNorm(s, b, e)
       ELSE LET r  == ShiftRight(b, d - 1, sticky)
                q  == DivBytes(r.val, 2)
                up == q.rem = 1 /\ (r.sticky \/ q.val[Len(q.val)] % 2 = 1)
            IN BNorm(s, IF up THEN MulAddBytes(q.val, 1, 1).val ELSE q.val, e + d)

\* value.abs() * 1e18: 1e18 = 5^18 * 2^18 is itself a binary64, and the
\* exact product is rounded once
BAbsTimes1e18(value) ==
    LET p9  == MulAddBytes(PadLeft(value.m, 32), 1953125, 0).val
        p18 == MulAddBytes(p9, 1953125, 0).val
    IN RoundBits(0, p18, value.e + 18, FALSE)

\* `f as u128` for a finite f >= 0: truncation toward zero, u128::MAX above
\* the range
BAsU128(f) ==
    IF f.e >= 0
    THEN (IF BitLen(f.m) + f.e > 128 THEN MaxBytes(16)
          ELSE ShiftLeft(PadLeft(f.m, 16), f.e).val)
    ELSE ShiftRight(PadLeft(f.m, 16), -f.e, FALSE).val

\* f / 1e18 for a finite f >= 0: the exact quotient to 55 bits or more and
\* whether anything is left below them, rounded once
BDiv1e18(f) ==
    IF IsZeroBytes(f.m) THEN f
    ELSE LET n  == ShiftLeft(PadLeft(f.m, 32), 96).val
             q1 == DivBytes(n, 1953125)
             q2 == DivBytes(q1.val, 1953125)
         IN RoundBits(0, q2.val, f.e - 18 - 96, q1.rem # 0 \/ q2.rem # 0)

\* f64_to_u256 of crates/lib-timeseries on a binary64
f64_to_u256_b64(value) ==
    LET scaled_value == BAsU128(BAbsTimes1e18(value))
        bytes        == scaled_value
        padded_bytes == Zeros(16) \o bytes
    IN padded_bytes

\* u256_to_f64 of crates/lib-timeseries, returning a binary64
u256_to_f64_b64(value) ==
    LET bytes      == value
        u128_value == SubSeq(bytes, 17, 32)
    IN BDiv1e18(RoundBits(0, PadLeft(u128_value, 32), 0, FALSE))

\* format!("{:.0}", f) then U256::from_dec_str for a finite f >= 0: f
\* rounded to an integer (to nearest, ties to even), an error above 256 bits
BFormatPrec0(f) ==
    IF f.e >= 0
    THEN (IF BitLen(f.m) + f.e > 256 THEN Panic(UnwrapErrMsg)
          ELSE Ok(ShiftLeft(PadLeft(f.m, 32), f.e).val))
    ELSE LET r  == ShiftRight(PadLeft(f.m, 32), -f.e - 1, FALSE)
             q  == DivBytes(r.val, 2)
             up == q.rem = 1 /\ (r.sticky \/ q.val[32] % 2 = 1)
         IN Ok(IF up THEN MulAddBytes(q.val, 1, 1).val ELSE q.val)

\* f64_to_u256 of lib on a binary64
lib_f64_to_u256_b64(value) ==
    BFormatPrec0(BAbsTimes1e18(value))

\* u256_to_f64 of lib, returning a binary64: to_string then parse give the
\* binary64 nearest to the integer
lib_u256_to_f64_b64(value) ==
    BDiv1e18(RoundBits(0, value, 0, FALSE))

\* ----------------------------------------------------------- commitment
\* f64::to_be_bytes: the 8 bytes of the bit pattern, big-endian: sign and
\* exponent field in the first two, the significand in the other six
F64Bytes(v) ==
    LET field == IF IsFin(v) THEN (IF v.m = 0 THEN 0 ELSE v.e - MinExp10 + Prec)
                 ELSE 32767
        sign  == IF IsNaN(v) THEN 0 ELSE v.s
        frac  == IF IsFin(v) THEN v.m ELSE IF IsNaN(v) THEN 1 ELSE 0
    IN NatToBytes(sign * 32768 + field, 2) \o NatToBytes(frac, 6)

\* the hasher fed the values alone, the timestamps left out
RECURSIVE HashInput_values_only(_, _, _)
HashInput_values_only(ts, vs, n) ==
    IF n = 0 THEN <<>>
    ELSE HashInput_values_only(ts, vs, n - 1) \o F64Bytes(vs[n])

\* what compute_hash feeds the hasher, in order: zip stops at the shorter
\* of the two vectors
RECURSIVE HashInput(_, _, _)
HashInput(ts, vs, n) ==
    IF n = 0 THEN <<>>
    ELSE HashInput(ts, vs, n - 1) \o U64ToBeBytes(ts[n]) \o F64Bytes(vs[n])

\* Keccak256 over the bytes fed to it: collision-free, so the digest is
\* modelled as the bytes hashed
Keccak256(bytes) ==
    [keccak256 |-> bytes]

\* TimeSeries::compute_hash
compute_hash(self) ==
    Keccak256(HashInput(self.timestamps, self.values,
                        Min(Len(self.timestamps), Len(self.values))))

\* ------------------------------------------------------- public values
\* Uint::<256, 4>::from(u64)
U256FromU64(u) ==
    PadLeft(U64ToBeBytes(u), 32)

\* timestamps.first().unwrap_or(&0)
FirstOrZero(ts) ==
    IF Len(ts) = 0 THEN U64FromNat(0) ELSE ts[1]

\* timestamps.last().unwrap_or(&0)
LastOrZero(ts) ==
    IF Len(ts) = 0 THEN U64FromNat(0) ELSE ts[Len(ts)]

\* TimeSeries::to_public_values
to_public_values(self, checks) ==
    LET med == median(self, checks)
    IN IF ~med.ok THEN med
       ELSE Ok([start_timestamp |-> U256FromU64(FirstOrZero(self.timestamps)),
                end_timestamp   |-> U256FromU64(LastOrZero(self.timestamps)),
                values_hash     |-> compute_hash(self),
                mean            |-> f64_to_u256(mean(self)),
                median          |-> f64_to_u256(med.val),
                std_dev         |-> f64_to_u256(std_dev(self))])

\* to_moving_average_public_values committing to the averaged series
to_moving_average_public_values_of_ma(self, window_size) ==
    LET ma == moving_average(self, window_size)
    IN IF ~ma.ok THEN ma
       ELSE Ok([start_timestamp |-> U256FromU64(FirstOrZero(self.timestamps)),
                end_timestamp   |-> U256FromU64(LastOrZero(self.timestamps)),
                values_hash     |-> compute_hash(ma.val),
                window_size     |-> U256FromU64(U64FromNat(window_size)),
                moving_averages |-> vec_f64_to_u256(ma.val.values)])

\* TimeSeries::to_moving_average_public_values
to_moving_average_public_values(self, window_size) ==
    LET ma == moving_average(self, window_size)
    IN IF ~ma.ok THEN ma
       ELSE Ok([start_timestamp |-> U256FromU64(FirstOrZero(self.timestamps)),
                end_timestamp   |-> U256FromU64(LastOrZero(self.timestamps)),
                values_hash     |-> compute_hash(self),
                window_size     |-> U256FromU64(U64FromNat(window_size)),
                moving_averages |-> vec_f64_to_u256(ma.val.values)])

\* ------------------------------------------------------------- programs
\* Uint::from_str_radix(digits, 10): the integer the digits spell, as 32
\* big-endian bytes, from digit i on; an error beyond 256 bits
RECURSIVE FromDigits(_, _, _)
FromDigits(t, i, acc) ==
    IF i > Len(t) THEN Ok(acc)
    ELSE LET a == MulAddBytes(acc, 10, t[i])
         IN IF a.carry # 0 THEN Panic(UnwrapErrMsg)
            ELSE FromDigits(t, i + 1, a.val)

from_str_radix(t) ==
    FromDigits(t, 1, Zeros(32))

\* Uint::from_str_radix(&f64_to_u256(v).to_string(), 10).unwrap() with the
\* f64_to_u256 of lib
ProgramEncode(v) ==
    LET u == lib_f64_to_u256(v)
    IN IF u.ok THEN from_str_radix(to_string(u.val)) ELSE u

\* what main of program computes between TimeSeries::new and abi_encode:
\* mean and std_dev, their encodings and those of the values, the record
program_public_values(ts, forecast_values, time_series) ==
    LET mu   == mean(time_series)
        sd   == std_dev(time_series)
        encs == [i \in 1..Len(forecast_values) |-> ProgramEncode(forecast_values[i])]
        mean_uint    == ProgramEncode(mu)
        std_dev_uint == ProgramEncode(sd)
    IN IF \E i \in 1..Len(encs) : ~encs[i].ok THEN Panic(UnwrapErrMsg)
       ELSE IF ~mean_uint.ok THEN mean_uint
       ELSE IF ~std_dev_uint.ok THEN std_dev_uint
       ELSE Ok([timestamps      |-> ts,
                forecast_values |-> [i \in 1..Len(encs) |-> encs[i].val],
                mean            |-> mean_uint.val,
                std_dev         |-> std_dev_uint.val])

\* SolValue::abi_encode: the bytes of a record, one record per byte string
abi_encode(public_values) ==
    [abi_encode |-> public_values]

\* a main that stays at commit_slice, committing again and again
NextAt_commit_again(at) ==
    CASE at = "start" -> "read"
      [] at = "read" -> "built"
      [] at = "built" -> "assembled"
      [] at = "assembled" -> "encoded"
      [] OTHER -> at

\* the statements of a main in the order they run; after commit_slice main
\* returns
NextAt(at) ==
    CASE at = "start" -> "read"
      [] at = "read" -> "built"
      [] at = "built" -> "assembled"
      [] at = "assembled" -> "encoded"
      [] at = "encoded" -> "committed"
      [] OTHER -> at

\* where main is after a statement: a panic unwinds main, nothing after
\* the panicking statement runs
After(at, ok) ==
    IF ok THEN NextAt(at) ELSE "panicked"

\* ---------------------------------------------------------------- state
VARIABLES
    timestamps,       \* Vec<u64> received from the caller
    values,           \* Vec<f64> received from the caller
    window_size,      \* usize received from the caller
    alpha,            \* smoothing factor received from the caller
    horizon,          \* forecast horizon received from the caller
    x,                \* the f64 handed to the codec
    other,            \* a second series, for comparing commitments
    made,             \* the call of TimeSeries::new on (timestamps, values)
    summary,          \* the call of to_public_values on the series
    ma_pv,            \* the call of to_moving_average_public_values
    out,              \* the last other call: [op, res] or more
    pc,               \* the main that runs ("none": library calls only) and
                      \* the statement it has reached
    committed,        \* the slices committed as public output, in order
    chain             \* the series obtained by transforms so far, in order:
                      \* [op, self (0: the built series, i: chain[i]), res]

vars ==
    <<timestamps, values, window_size, alpha, horizon, x, other,
      made, summary, ma_pv, out, pc, committed, chain>>

\* the position and the output of a main
program ==
    <<pc, committed>>

inputs ==
    <<timestamps, values, window_size, alpha, horizon, x, other>>

NotRun == [run |-> FALSE]

Ran(res) == [run |-> TRUE, res |-> res]

NoOp == [op |-> "none"]

\* all sequences over S of length at most n
SeqsUpTo(S, n) ==
    UNION {[1..k -> S] : k \in 0..n}

\* timestamps the caller may send (the sample data steps by 86400)
TsSet ==
    {U64FromNat(1), U64FromNat(86400)}

\* timestamps for the smoothing operators: the above and 2^63 + 1, far
\* enough up for the u64 arithmetic on timestamps to leave its range
SmoothTsSet ==
    TsSet \cup {<<32768, 0, 0, 1>>}

\* values the caller may send
ValSet ==
    {Lit(15, -1), Lit(4, 0), NaN}

\* smoothing factors the caller may send
AlphaSet ==
    {Lit(-5, -1), Zero, Lit(5, -1), Lit(1, 0), Lit(11, -1), Inf(0), Inf(1), NaN}

\* floats handed to the codec: a grid of magnitudes from 10^-21 to 10^62 with
\* one to three significant digits, both signs, and the special values
CodecSet ==
    {Lit(m, e) : m \in {0, 1, -1, 5, 15, 25, 27, -27, 34, 35, 314},
                 e \in {-21, -20, -19, -18, -2, 0, 19, 20, 21, 58, 59, 60, 300}}
    \cup {NaN, Inf(0), Inf(1)}

NoSeries == [timestamps |-> <<>>, values |-> <<>>]

NoMain == [main |-> "none", at |-> "start"]

\* nothing called yet, no main running
Fresh ==
    /\ made = NotRun
    /\ summary = NotRun
    /\ ma_pv = NotRun
    /\ out = NoOp
    /\ pc = NoMain
    /\ committed = <<>>
    /\ chain = <<>>

\* the build: integer overflow panics when overflow checks are compiled in
\* (debug) and wraps when they are not (release)
Builds == BOOLEAN

\* ---- the series pipeline: construction, moving average, both records
Init ==
    /\ timestamps \in SeqsUpTo(TsSet, MaxLen)
    /\ values \in SeqsUpTo(ValSet, MaxLen)
    /\ window_size \in 0..MaxWindow
    /\ alpha = Zero
    /\ horizon = 0
    /\ x = Zero
    /\ other = NoSeries
    /\ Fresh

\* let time_series = TimeSeries::new(timestamps, values)
New ==
    /\ ~made.run
    /\ made' = Ran(TimeSeries_new(timestamps, values))
    /\ UNCHANGED <<inputs, chain, program, summary, ma_pv, out>>

Built == made.run /\ made.res.ok

\* time_series.to_public_values()
ToPublicValues ==
    /\ Built
    /\ ~summary.run
    /\ \E checks \in Builds :
           summary' = Ran(to_public_values(made.res.val, checks))
    /\ UNCHANGED <<inputs, chain, program, made, ma_pv, out>>

\* time_series.to_moving_average_public_values(window_size)
ToMovingAveragePublicValues ==
    /\ Built
    /\ ~ma_pv.run
    /\ ma_pv' = Ran(to_moving_average_public_values(made.res.val, window_size))
    /\ UNCHANGED <<inputs, chain, program, made, summary, out>>

\* time_series.moving_average(window_size)
MovingAverage ==
    /\ Built
    /\ out = NoOp
    /\ out' = [op |-> "moving_average",
               res |-> moving_average(made.res.val, window_size)]
    /\ UNCHANGED <<inputs, chain, program, made, summary, ma_pv>>

Next ==
    \/ New
    \/ ToPublicValues
    \/ ToMovingAveragePublicValues
    \/ MovingAverage

Spec == Init /\ [][Next]_vars

\* ---- the smoothing operators
InitSmooth ==
    /\ timestamps \in SeqsUpTo(SmoothTsSet, MaxLen)
    /\ values \in [1..Len(timestamps) -> ValSet]
    /\ window_size = 0
    /\ alpha \in AlphaSet
    /\ horizon \in 0..MaxHorizon
    /\ x = Zero
    /\ other = NoSeries
    /\ Fresh

\* time_series.exponential_moving_average(alpha)
ExponentialMovingAverage ==
    /\ Built
    /\ out = NoOp
    /\ out' = [op |-> "exponential_moving_average",
               res |-> exponential_moving_average(made.res.val, alpha)]
    /\ UNCHANGED <<inputs, chain, program, made, summary, ma_pv>>

\* time_series.simple_exponential_smoothing(alpha, horizon)
SimpleExponentialSmoothing ==
    /\ Built
    /\ out = NoOp
    /\ \E checks \in Builds :
           out' = [op |-> "simple_exponential_smoothing",
                   res |-> simple_exponential_smoothing(made.res.val, alpha,
                                                        horizon, checks)]
    /\ UNCHANGED <<inputs, chain, program, made, summary, ma_pv>>

NextSmooth ==
    \/ New
    \/ ExponentialMovingAverage
    \/ SimpleExponentialSmoothing

SpecSmooth == InitSmooth /\ [][NextSmooth]_vars

\* ---- chains of transforms: each is applied to the built series or to the
\* result of an earlier transform
InitChain ==
    /\ timestamps \in SeqsUpTo(TsSet, MaxLen)
    /\ values \in SeqsUpTo({Lit(15, -1), Lit(4, 0)}, MaxLen)
    /\ window_size \in {1, MaxWindow}
    /\ alpha \in {Lit(5, -1), Lit(11, -1)}
    /\ horizon \in {0, MaxHorizon}
    /\ x = Zero
    /\ other = NoSeries
    /\ Fresh

\* the series a transform is called on
Receiver(i) ==
    IF i = 0 THEN made.res.val ELSE chain[i].res

\* let next = self.<op>(..): a returned series joins the live ones, a panic
\* ends the run
Link(op, i, res) ==
    IF res.ok
    THEN /\ chain' = Append(chain, [op |-> op, self |-> i, res |-> res.val])
         /\ out' = out
    ELSE /\ chain' = chain
         /\ out' = [op |-> op, res |-> res]

\* series.moving_average(window_size)
ChainMovingAverage ==
    /\ Built
    /\ out = NoOp
    /\ Len(chain) < MaxChain
    /\ \E i \in 0..Len(chain) :
           Link("moving_average", i, moving_average(Receiver(i), window_size))
    /\ UNCHANGED <<inputs, program, made, summary, ma_pv>>

\* series.exponential_moving_average(alpha)
ChainExponentialMovingAverage ==
    /\ Built
    /\ out = NoOp
    /\ Len(chain) < MaxChain
    /\ \E i \in 0..Len(chain) :
           Link("exponential_moving_average", i,
                exponential_moving_average(Receiver(i), alpha))
    /\ UNCHANGED <<inputs, program, made, summary, ma_pv>>

\* series.simple_exponential_smoothing(alpha, horizon)
ChainSimpleExponentialSmoothing ==
    /\ Built
    /\ out = NoOp
    /\ Len(chain) < MaxChain
    /\ \E i \in 0..Len(chain), checks \in Builds :
           Link("simple_exponential_smoothing", i,
                simple_exponential_smoothing(Receiver(i), alpha, horizon, checks))
    /\ UNCHANGED <<inputs, program, made, summary, ma_pv>>

NextChain ==
    \/ New
    \/ ChainMovingAverage
    \/ ChainExponentialMovingAverage
    \/ ChainSimpleExponentialSmoothing

SpecChain == InitChain /\ [][NextChain]_vars

\* ---- the three programs, statement by statement
Mains == {"data-hash", "moving-average", "program"}

\* program reads n and then n pairs, so its two vectors have one length;
\* only moving-average reads a window size
InitProgram ==
    /\ timestamps \in SeqsUpTo(TsSet, MaxLen)
    /\ values \in SeqsUpTo(ValSet, MaxLen)
    /\ window_size \in 0..MaxWindow
    /\ alpha = Zero
    /\ horizon = 0
    /\ x = Zero
    /\ other = NoSeries
    /\ made = NotRun
    /\ summary = NotRun
    /\ ma_pv = NotRun
    /\ out = NoOp
    /\ pc \in {[main |-> m, at |-> "start"] : m \in Mains}
    /\ pc.main = "program" => Len(timestamps) = Len(values)
    /\ pc.main # "moving-average" => window_size = 0
    /\ committed = <<>>
    /\ chain = <<>>

\* sp1_zkvm::io::read of the inputs
MainRead ==
    /\ pc.at = "start"
    /\ pc.main \in Mains
    /\ pc' = [pc EXCEPT !.at = NextAt(pc.at)]
    /\ UNCHANGED <<inputs, chain, made, summary, ma_pv, out, committed>>

\* let time_series = TimeSeries::new(timestamps, forecast_values)
MainNew ==
    /\ pc.at = "read"
    /\ LET res == TimeSeries_new(timestamps, values)
       IN /\ made' = Ran(res)
          /\ pc' = [pc EXCEPT !.at = After(pc.at, res.ok)]
    /\ UNCHANGED <<inputs, chain, summary, ma_pv, out, committed>>

\* data-hash: let public_values = time_series.to_public_values()
DataHashRecord ==
    /\ pc.at = "built"
    /\ pc.main = "data-hash"
    /\ \E checks \in Builds :
           LET res == to_public_values(made.res.val, checks)
           IN /\ summary' = Ran(res)
              /\ pc' = [pc EXCEPT !.at = After(pc.at, res.ok)]
    /\ UNCHANGED <<inputs, chain, made, ma_pv, out, committed>>

\* moving-average: let public_values =
\* time_series.to_moving_average_public_values(window_size)
MovingAverageRecord ==
    /\ pc.at = "built"
    /\ pc.main = "moving-average"
    /\ LET res == to_moving_average_public_values(made.res.val, window_size)
       IN /\ ma_pv' = Ran(res)
          /\ pc' = [pc EXCEPT !.at = After(pc.at, res.ok)]
    /\ UNCHANGED <<inputs, chain, made, summary, out, committed>>

\* program: the statistics, their encoding and PublicValuesStruct { .. }
ProgramRecord ==
    /\ pc.at = "built"
    /\ pc.main = "program"
    /\ LET res == program_public_values(timestamps, values, made.res.val)
       IN /\ summary' = Ran(res)
          /\ pc' = [pc EXCEPT !.at = After(pc.at, res.ok)]
    /\ UNCHANGED <<inputs, chain, made, ma_pv, out, committed>>

\* the record main has assembled
PublicValues ==
    IF pc.main = "moving-average" THEN ma_pv.res.val ELSE summary.res.val

\* let bytes = public_values.abi_encode()
MainAbiEncode ==
    /\ pc.at = "assembled"
    /\ out' = [op |-> "abi_encode", bytes |-> abi_encode(PublicValues)]
    /\ pc' = [pc EXCEPT !.at = NextAt(pc.at)]
    /\ UNCHANGED <<inputs, chain, made, summary, ma_pv, committed>>

\* sp1_zkvm::io::commit_slice(&bytes)
MainCommit ==
    /\ pc.at = "encoded"
    /\ committed' = Append(committed, out.bytes)
    /\ pc' = [pc EXCEPT !.at = NextAt(pc.at)]
    /\ UNCHANGED <<inputs, chain, made, summary, ma_pv, out>>

NextProgram ==
    \/ MainRead
    \/ MainNew
    \/ DataHashRecord
    \/ MovingAverageRecord
    \/ ProgramRecord
    \/ MainAbiEncode
    \/ MainCommit

SpecProgram == InitProgram /\ [][NextProgram]_vars

\* ---- the statistics
\* values for the statistics: -2, 1.5, 3.38, +infinity and NaN
StatSet ==
    {Lit(-2, 0), Lit(15, -1), Lit(338, -2), Inf(0), NaN}

\* timestamps 1, 2, .. as in the unit tests
InitStats ==
    /\ values \in SeqsUpTo(StatSet, MaxLen)
    /\ timestamps = [i \in 1..Len(values) |-> U64FromNat(i)]
    /\ window_size = 0
    /\ alpha = Zero
    /\ horizon = 0
    /\ x = Zero
    /\ other = NoSeries
    /\ Fresh

\* time_series.mean()
Mean ==
    /\ Built
    /\ out = NoOp
    /\ out' = [op |-> "mean", res |-> Ok(mean(made.res.val))]
    /\ UNCHANGED <<inputs, chain, program, made, summary, ma_pv>>

\* time_series.median(): the sort works on a clone, self is only borrowed
Median ==
    /\ Built
    /\ out = NoOp
    /\ \E checks \in Builds :
           out' = [op |-> "median", res |-> median(made.res.val, checks)]
    /\ UNCHANGED <<inputs, chain, program, made, summary, ma_pv>>

\* time_series.std_dev()
StdDev ==
    /\ Built
    /\ out = NoOp
    /\ out' = [op |-> "std_dev", res |-> Ok(std_dev(made.res.val))]
    /\ UNCHANGED <<inputs, chain, program, made, summary, ma_pv>>

NextStats ==
    \/ New
    \/ Mean
    \/ Median
    \/ StdDev

SpecStats == InitStats /\ [][NextStats]_vars

\* ---- the codec, both copies
InitCodec ==
    /\ timestamps = <<>>
    /\ values = <<>>
    /\ window_size = 0
    /\ alpha = Zero
    /\ horizon = 0
    /\ x \in CodecSet
    /\ other = NoSeries
    /\ Fresh

\* lib_timeseries::f64_to_u256(x)
Encode ==
    /\ out = NoOp
    /\ out' = [op |-> "f64_to_u256", res |-> Ok(f64_to_u256(x))]
    /\ UNCHANGED <<inputs, chain, program, made, summary, ma_pv>>

\* timeseries_lib::f64_to_u256(x)
LibEncode ==
    /\ out = NoOp
    /\ out' = [op |-> "lib_f64_to_u256", res |-> lib_f64_to_u256(x)]
    /\ UNCHANGED <<inputs, chain, program, made, summary, ma_pv>>

\* lib_timeseries: u256_to_f64(f64_to_u256(x)), as the conversion test does
RoundTrip ==
    /\ out = NoOp
    /\ LET converted == f64_to_u256(x)
       IN out' = [op |-> "round_trip", enc |-> Ok(converted),
                  res |-> Ok(u256_to_f64(converted))]
    /\ UNCHANGED <<inputs, chain, program, made, summary, ma_pv>>

\* timeseries_lib: u256_to_f64(f64_to_u256(x)), as the conversion test does
LibRoundTrip ==
    /\ out = NoOp
    /\ LET converted == lib_f64_to_u256(x)
       IN out' = [op |-> "lib_round_trip", enc |-> converted,
                  res |-> IF converted.ok THEN Ok(lib_u256_to_f64(converted.val))
                          ELSE converted]
    /\ UNCHANGED <<inputs, chain, program, made, summary, ma_pv>>

NextCodec ==
    \/ Encode
    \/ LibEncode
    \/ RoundTrip
    \/ LibRoundTrip

SpecCodec == InitCodec /\ [][NextCodec]_vars

\* ---- the codec round trip on binary64 operands
\* pi (the operand of the conversion test), 0.1, 1, 3, 123456789,
\* 1000000001 and 2^70
B64Seeds ==
    {BNorm(0, <<0, 25, 33, 251, 84, 68, 45, 24>>, -51),
     BNorm(0, <<0, 25, 153, 153, 153, 153, 153, 154>>, -56),
     BNorm(0, NatToBytes(1, 8), 0),
     BNorm(0, NatToBytes(3, 8), 0),
     BNorm(0, NatToBytes(123456789, 8), 0),
     BNorm(0, NatToBytes(1000000001, 8), 0),
     BNorm(0, NatToBytes(1, 8), 70)}

B64Set ==
    {[f EXCEPT !.e = f.e + k] : f \in B64Seeds, k \in -MaxShift..MaxShift}

InitRoundTrip ==
    /\ timestamps = <<>>
    /\ values = <<>>
    /\ window_size = 0
    /\ alpha = Zero
    /\ horizon = 0
    /\ x \in B64Set
    /\ other = NoSeries
    /\ Fresh

\* lib_timeseries: u256_to_f64(f64_to_u256(x)), as the conversion test does
RoundTripB64 ==
    /\ out = NoOp
    /\ LET converted == f64_to_u256_b64(x)
       IN out' = [op |-> "round_trip_b64", enc |-> Ok(converted),
                  res |-> Ok(u256_to_f64_b64(converted))]
    /\ UNCHANGED <<inputs, chain, program, made, summary, ma_pv>>

\* timeseries_lib: u256_to_f64(f64_to_u256(x)), as the conversion test does
LibRoundTripB64 ==
    /\ out = NoOp
    /\ LET converted == lib_f64_to_u256_b64(x)
       IN out' = [op |-> "lib_round_trip_b64", enc |-> converted,
                  res |-> IF converted.ok
                          THEN Ok(lib_u256_to_f64_b64(converted.val))
                          ELSE converted]
    /\ UNCHANGED <<inputs, chain, program, made, summary, ma_pv>>

NextRoundTrip ==
    \/ RoundTripB64
    \/ LibRoundTripB64

SpecRoundTrip == InitRoundTrip /\ [][NextRoundTrip]_vars

\* ---- the commitment of two series side by side
AllSeries ==
    UNION {{[timestamps |-> t, values |-> v] :
                t \in [1..k -> TsSet], v \in [1..k -> ValSet]} : k \in 0..MaxLen - 1}

InitHash ==
    /\ timestamps \in SeqsUpTo(TsSet, MaxLen - 1)
    /\ values \in [1..Len(timestamps) -> ValSet]
    /\ window_size = 0
    /\ alpha = Zero
    /\ horizon = 0
    /\ x = Zero
    /\ other \in AllSeries
    /\ Fresh

\* self.compute_hash() on the series and on the other one
ComputeHash ==
    /\ Built
    /\ out = NoOp
    /\ out' = [op |-> "compute_hash",
               res |-> compute_hash(made.res.val),
               res_other |-> compute_hash(other)]
    /\ UNCHANGED <<inputs, chain, program, made, summary, ma_pv>>

NextHash ==
    \/ New
    \/ ComputeHash

SpecHash == InitHash /\ [][NextHash]_vars

\* =============================================================== claims

\* ---- C1
\* C1: TimeSeries::new on timestamps and values of different lengths never
\* yields a TimeSeries: the call fails with the length-mismatch failure (the
\* assert_eq! panic carrying LengthMismatchMsg), and nothing is ever computed
\* from such a pair.
C1_LengthMismatchRejected ==
    (made.run /\ Len(timestamps) # Len(values)) =>
        /\ ~made.res.ok
        /\ made.res.panic = LengthMismatchMsg
        /\ ~summary.run
        /\ ~ma_pv.run
        /\ out = NoOp

C1_Witness ==
    /\ made.run
    /\ Len(timestamps) = 2
    /\ Len(values) = 3
    /\ ~made.res.ok

\* ---- C2
\* C2: TimeSeries::new on zero-length timestamps and values is rejected, so
\* that no statistic, transform or output record is computed over an empty
\* series.
C2_EmptySeriesRejected ==
    (timestamps = <<>> /\ values = <<>>) =>
        /\ made.run => ~made.res.ok
        /\ ~(summary.run /\ summary.res.ok)
        /\ ~(ma_pv.run /\ ma_pv.res.ok)
        /\ ~(out.op = "moving_average" /\ out.res.ok)

\* ---- C3
\* C3: moving_average(0) is rejected for every series: it returns no series,
\* and to_moving_average_public_values(0) assembles no record.  Stated over
\* the non-empty series, which C2 does not concern.
C3_ZeroWindowRejected ==
    (window_size = 0 /\ Len(values) >= 1) =>
        /\ ~(out.op = "moving_average" /\ out.res.ok)
        /\ ~(ma_pv.run /\ ma_pv.res.ok)

\* ---- C4
\* |value| * 10^18 exceeds what w bytes hold
ExceedsBytes(value, w) ==
    LET scaled == FMul(FAbs(value), Lit(1, 18))
    IN \/ IsInf(scaled)
       \/ /\ IsFin(scaled)
          /\ scaled.e >= 0
          /\ MulPow10Bytes(NatToBytes(scaled.m, w), scaled.e).overflow

\* C4: f64_to_u256 fails whenever |x| * 10^18 exceeds the range of the
\* integer it is scaled into (u128 in crates/lib-timeseries, U256 in lib): it
\* never returns a value for such an x.  Stated over the finite x.
C4_OverflowFails ==
    /\ (out.op = "f64_to_u256" /\ IsFin(x) /\ ExceedsBytes(x, 16)) => ~out.res.ok
    /\ (out.op = "lib_f64_to_u256" /\ IsFin(x) /\ ExceedsBytes(x, 32)) => ~out.res.ok

\* ---- C5
\* the integers nearest to f >= 0 (both of them when f lies halfway), each as
\* 32 big-endian bytes; f finite with an integer part below 2^256
NearestIntegers(f) ==
    IF f.e >= 0 THEN {MulPow10Bytes(NatToBytes(f.m, 32), f.e).val}
    ELSE IF -f.e > NDigits(f.m) THEN {Zeros(32)}
    ELSE LET h == Pow10(-f.e)
             q == f.m \div h
             r == f.m % h
         IN {NatToBytes(n, 32) :
                n \in {k \in {q, q + 1} : Abs(2 * (k * h - f.m)) <= h}}

\* C5: for every finite x whose scaled magnitude is in range, f64_to_u256(x)
\* is the integer nearest to |x| * 10^18 (not the one truncated toward zero),
\* in the 32-byte big-endian layout.
C5_RoundsToNearest ==
    (out.op \in {"f64_to_u256", "lib_f64_to_u256"} /\ IsFin(x)
        /\ ~ExceedsBytes(x, IF out.op = "f64_to_u256" THEN 16 ELSE 32)) =>
            /\ out.res.ok
            /\ out.res.val \in NearestIntegers(FMul(FAbs(x), Lit(1, 18)))

\* ---- C6
\* C6: a series containing a NaN makes to_public_values fail: it never
\* returns a record.
C6_NaNRejected ==
    (summary.run /\ \E i \in 1..Len(values) : IsNaN(values[i])) => ~summary.res.ok

\* ---- C7
\* a lies outside the closed interval [0, 1], NaN included
OutsideUnitInterval(a) ==
    \/ IsNaN(a)
    \/ IsInf(a)
    \/ IsFin(a) /\ a.m # 0 /\ a.s = 1
    \/ IsFin(a) /\ a.s = 0 /\ a.e >= 0 /\ a.m * Pow10(Min(a.e, 1)) > 1
    \/ IsFin(a) /\ a.s = 0 /\ a.e < 0 /\ NDigits(a.m) > -a.e

Smoothers == {"exponential_moving_average", "simple_exponential_smoothing"}

ArithmeticMean(w) ==
    FDiv(FSum(w), FromNat(Len(w)))

\* C8: on a series of n >= 1 values and for window_size >= 1,
\* moving_average returns the input's timestamps and exactly n values, value
\* i (0-based) being the mean of values[max(0, i - window_size + 1) .. i].
C8_TrailingWindowMean ==
    (out.op = "moving_average" /\ Len(values) >= 1 /\ window_size >= 1) =>
        /\ out.res.ok
        /\ out.res.val.timestamps = timestamps
        /\ Len(out.res.val.values) = Len(values)
        /\ \A i \in 0..Len(values) - 1 :
               out.res.val.values[i + 1] =
                   ArithmeticMean(SubSeq(values, Max(0, i - window_size + 1) + 1, i + 1))

\* moving_average([1.5, 4, 4], 2) = [1.5, 2.75, 4]
C8_Witness ==
    /\ out.op = "moving_average"
    /\ window_size = 2
    /\ values = <<Lit(15, -1), Lit(4, 0), Lit(4, 0)>>
    /\ out.res.ok
    /\ out.res.val.values = <<Lit(15, -1), Lit(275, -2), Lit(4, 0)>>

\* ---- C9
\* the fields both records share, from the input as the caller sent it
SharedFields(r) ==
    <<r.start_timestamp, r.end_timestamp, r.values_hash>>

\* the 32 big-endian bytes b hold the u64 u
HoldsU64(b, u) ==
    /\ Len(b) = 32
    /\ \A j \in 1..24 : b[j] = 0
    /\ \A j \in 1..4 : b[23 + 2 * j] * 256 + b[24 + 2 * j] = u[j]

\* r.start_timestamp and r.end_timestamp hold the input's first and last
\* timestamp, 0 and 0 for an empty input
SharedFromInput(r) ==
    /\ HoldsU64(r.start_timestamp,
                IF timestamps = <<>> THEN <<0, 0, 0, 0>> ELSE timestamps[1])
    /\ HoldsU64(r.end_timestamp,
                IF timestamps = <<>> THEN <<0, 0, 0, 0>> ELSE timestamps[Len(timestamps)])
    /\ r.values_hash = compute_hash([timestamps |-> timestamps, values |-> values])

\* C9: in both records values_hash is the commitment of the input series
\* (not of its moving average) and start / end timestamp are the input's first
\* / last timestamp (0 / 0 for an empty series); so the records of one input
\* agree on the three fields, for every window_size.
C9_SharedFieldsFromInput ==
    /\ (summary.run /\ summary.res.ok) => SharedFromInput(summary.res.val)
    /\ (ma_pv.run /\ ma_pv.res.ok) => SharedFromInput(ma_pv.res.val)
    /\ (summary.run /\ summary.res.ok /\ ma_pv.run /\ ma_pv.res.ok) =>
           SharedFields(summary.res.val) = SharedFields(ma_pv.res.val)

\* both records exist for a series whose moving average differs from it
C9_Witness ==
    /\ summary.run /\ summary.res.ok
    /\ ma_pv.run /\ ma_pv.res.ok
    /\ window_size = 2
    /\ values = <<Lit(15, -1), Lit(4, 0)>>
    /\ timestamps = <<U64FromNat(1), U64FromNat(86400)>>
    /\ ma_pv.res.val.values_hash # compute_hash(moving_average(made.res.val, 2).val)

\* ---- C10
\* C10: the bytes compute_hash feeds the hasher are, pair by pair and in
\* order, the 8 big-endian bytes of the timestamp then the 8 bytes of the
\* value's bit pattern; and two series have the same digest exactly when they
\* are the same series (the hash being collision-free).
C10_CommitmentPreimage ==
    out.op = "compute_hash" =>
        /\ Len(out.res.keccak256) = 16 * Len(values)
        /\ \A i \in 1..Len(values) :
               /\ \A j \in 1..4 :
                      out.res.keccak256[16 * i - 17 + 2 * j] * 256
                          + out.res.keccak256[16 * i - 16 + 2 * j] = timestamps[i][j]
               /\ SubSeq(out.res.keccak256, 16 * i - 7, 16 * i) = F64Bytes(values[i])
        /\ (out.res = out.res_other) <=> (made.res.val = other)

\* two series that differ only in the order of their pairs
C10_Witness ==
    /\ out.op = "compute_hash"
    /\ Len(values) = 2
    /\ other.timestamps = <<timestamps[2], timestamps[1]>>
    /\ other.values = <<values[2], values[1]>>
    /\ other # made.res.val
    /\ out.res # out.res_other

\* ---- C11
\* C11: the codec drops the sign: encoding x and encoding -x give the same
\* integer, so both decode to the same value, and what decode returns is
\* never negative, for a negative x too.  Checked on both copies (on lib
\* wherever encoding returns).
C11_SignDropped ==
    /\ out.op = "round_trip" =>
           /\ out.enc.val = f64_to_u256(FNeg(x))
           /\ out.res.val = u256_to_f64(f64_to_u256(FNeg(x)))
           /\ IsFin(out.res.val) /\ out.res.val.s = 0
    /\ out.op = "lib_round_trip" =>
           /\ out.enc = lib_f64_to_u256(FNeg(x))
           /\ out.enc.ok =>
                  /\ out.res.val = lib_u256_to_f64(lib_f64_to_u256(FNeg(x)).val)
                  /\ IsFin(out.res.val) /\ out.res.val.s = 0

\* -0.27 encodes as 27 * 10^16 and decodes as 0.27
C11_Witness ==
    /\ out.op = "round_trip"
    /\ x = Lit(-27, -2)
    /\ out.enc.val = Zeros(16) \o MulPow10Bytes(NatToBytes(27, 16), 16).val
    /\ out.res.val = Lit(27, -2)

\* ---- C12
\* |value| * 10^18, exactly, is below 2^bits
ScaledBelow(value, bits) ==
    LET p9  == MulAddBytes(PadLeft(value.m, 32), 1953125, 0).val
        p18 == MulAddBytes(p9, 1953125, 0).val
    IN BitLen(p18) + value.e + 18 <= bits

\* a < b for two byte integers of one width
LessBytes(a, b) ==
    SubFrom(a, b, Len(a), 0, <<>>, 256).borrow = 1

\* |a - b| < 10^-9 for two binary64 a, b >= 0
Within1e9(a, b) ==
    LET lo == Min(a.e, b.e)
        A  == ShiftLeft(PadLeft(a.m, 32), a.e - lo).val
        B  == ShiftLeft(PadLeft(b.m, 32), b.e - lo).val
        D  == IF LessBytes(A, B) THEN SubFrom(B, A, 32, 0, <<>>, 256).val
              ELSE SubFrom(A, B, 32, 0, <<>>, 256).val
        t3 == MulAddBytes(D, 1000, 0)
        t6 == MulAddBytes(t3.val, 1000, 0)
        t9 == MulAddBytes(t6.val, 1000, 0)
        u  == ShiftLeft(NatToBytes(1, 32), -lo)
    IN \/ IsZeroBytes(D)
       \/ /\ lo < 0
          /\ t3.carry = 0 /\ t6.carry = 0 /\ t9.carry = 0
          /\ (u.overflow \/ LessBytes(t9.val, u.val))

\* C12: for every finite x >= 0 whose scaled magnitude is in range (below
\* 2^128 in crates/lib-timeseries, below 2^256 in lib), decoding the encoding
\* of x returns a value within 10^-9 of x.
C12_RoundTripWithin1e9 ==
    /\ (out.op = "round_trip_b64" /\ ScaledBelow(x, 128)) =>
           Within1e9(x, out.res.val)
    /\ (out.op = "lib_round_trip_b64" /\ ScaledBelow(x, 256)) =>
           (out.res.ok /\ Within1e9(x, out.res.val))

\* ---- C13
OverflowMsgs == {SubOverflowMsg, MulOverflowMsg, AddOverflowMsg}

C14_ForecastTimestamps ==
    (out.op = "simple_exponential_smoothing" /\ out.res.ok) =>
        LET n    == Len(timestamps)
            got  == out.res.val.timestamps
            step == IF n > 1 THEN U64Sub(timestamps[2], timestamps[1]).val
                    ELSE <<0, 0, 0, 1>>
        IN /\ n >= 1
           /\ Len(got) = n + horizon
           /\ SubSeq(got, 1, n) = timestamps
           /\ \A i \in 1..horizon :
                  got[n + i] = U64Add(got[n + i - 1], step).val

\* timestamps [1, 86400] continued by 172799 and 259198
C14_Witness ==
    /\ out.op = "simple_exponential_smoothing"
    /\ timestamps = <<U64FromNat(1), U64FromNat(86400)>>
    /\ horizon = 2
    /\ out.res.ok
    /\ out.res.val.timestamps =
           <<U64FromNat(1), U64FromNat(86400), U64FromNat(172799), U64FromNat(259198)>>

\* ---- C15
\* C15: on a series of n >= 1 values and for alpha in [0, 1],
\* exponential_moving_average returns the input timestamps and n values, the
\* first being values[0] and each later one alpha * values[i] + (1 - alpha) *
\* (the one before it); so alpha = 1 returns the input values and alpha = 0
\* returns values[0] at every index.
C15_EmaRecurrence ==
    (out.op = "exponential_moving_average" /\ Len(values) >= 1
        /\ ~OutsideUnitInterval(alpha)) =>
            /\ out.res.ok
            /\ out.res.val.timestamps = timestamps
            /\ Len(out.res.val.values) = Len(values)
            /\ out.res.val.values[1] = values[1]
            /\ \A i \in 2..Len(values) :
                   out.res.val.values[i] =
                       FAdd(FMul(alpha, values[i]),
                            FMul(FSub(Lit(1, 0), alpha), out.res.val.values[i - 1]))
            /\ alpha = Lit(1, 0) => out.res.val.values = values
            /\ alpha = Zero =>
                   \A i \in 1..Len(values) : out.res.val.values[i] = values[1]

\* ---- C16
\* the permutations of 1..n
Perms(n) ==
    {p \in [1..n -> 1..n] : \A i, j \in 1..n : i # j => p[i] # p[j]}

\* the arrangements of v
Arrangements(v) ==
    {[i \in 1..Len(v) |-> v[p[i]]] : p \in Perms(Len(v))}

\* the arrangements of v that ascend
Ascending(v) ==
    {s \in Arrangements(v) : \A i \in 1..Len(s) - 1 : FLe(s[i], s[i + 1])}

\* the middle element of s for an odd length, the average of the two middle
\* elements for an even one
Middle(s) ==
    LET mid == Len(s) \div 2
    IN IF Len(s) % 2 = 1 THEN s[mid + 1]
       ELSE FDiv(FAdd(s[mid], s[mid + 1]), Lit(2, 0))

\* C16: on a non-empty series without NaN, median() returns the middle
\* element of the values in ascending order for an odd n and the average of
\* the two middle ones for an even n; every arrangement of the same values
\* has the same median; and the series keeps its values in their order.
C16_MedianOfSorted ==
    (out.op = "median" /\ Len(values) >= 1
        /\ \A i \in 1..Len(values) : ~IsNaN(values[i])) =>
            /\ out.res.ok
            /\ Ascending(values) # {}
            /\ \A s \in Ascending(values) : out.res.val = Middle(s)
            /\ \A v \in Arrangements(values), checks \in Builds :
                   median([timestamps |-> timestamps, values |-> v], checks) = out.res
            /\ made.res.val.values = values
            /\ made.res.val.timestamps = timestamps

\* the median of [3.38, -2, 1.5] is 1.5
C16_Witness ==
    /\ out.op = "median"
    /\ values = <<Lit(338, -2), Lit(-2, 0), Lit(15, -1)>>
    /\ out.res = Ok(Lit(15, -1))
    /\ made.res.val.values = values

\* ---- C17
\* the squared distances of the values of v from mu
SquaredDeviations(v, mu) ==
    [i \in 1..Len(v) |-> FMul(FSub(v[i], mu), FSub(v[i], mu))]

\* C17: on a non-empty series mean() is the sum of the values over n and
\* std_dev() the square root of the sum of the squared distances from mean()
\* over n (over n, not n - 1); so on a series whose values all equal c, mean()
\* is c and std_dev() is 0.  Stated over the series of finite values.
C17_PopulationStatistics ==
    (Len(values) >= 1 /\ \A i \in 1..Len(values) : IsFin(values[i])) =>
        LET n  == FromNat(Len(values))
            mu == FDiv(FSum(values), n)
            constant == \A i \in 1..Len(values) : values[i] = values[1]
        IN /\ out.op = "mean" =>
                  /\ out.res.val = mu
                  /\ constant => out.res.val = values[1]
           /\ out.op = "std_dev" =>
                  /\ out.res.val = FSqrt(FDiv(FSum(SquaredDeviations(values, mu)), n))
                  /\ constant => out.res.val = Zero

\* ---- C18
\* the fields of the record each main commits
RecordFields(main) ==
    CASE main = "data-hash" ->
             {"start_timestamp", "end_timestamp", "values_hash", "mean", "median",
              "std_dev"}
      [] main = "moving-average" ->
             {"start_timestamp", "end_timestamp", "values_hash", "window_size",
              "moving_averages"}
      [] OTHER -> {"timestamps", "forecast_values", "mean", "std_dev"}

\* a call made by main that did not return
Failed(call) ==
    call.run /\ ~call.res.ok

\* C18: a run commits at most one slice; when it has committed, main has
\* passed every statement before commit_slice, construction and the assembly
\* of the record have both returned, and the slice is the encoding of that
\* record with all its fields; a run in which a call failed has committed
\* nothing (and main is where the panic left it).
C18_CommitOnceAfterSuccess ==
    /\ Len(committed) <= 1
    /\ committed # <<>> =>
           /\ pc.at = "committed"
           /\ made.run /\ made.res.ok
           /\ LET rec == IF pc.main = "moving-average" THEN ma_pv ELSE summary
              IN /\ rec.run /\ rec.res.ok
                 /\ DOMAIN rec.res.val = RecordFields(pc.main)
                 /\ committed = <<abi_encode(rec.res.val)>>
    /\ (Failed(made) \/ Failed(summary) \/ Failed(ma_pv)) =>
           /\ pc.at = "panicked"
           /\ committed = <<>>
           /\ out = NoOp
    /\ pc.at = "panicked" => (Failed(made) \/ Failed(summary) \/ Failed(ma_pv))

\* the data-hash run over [1, 86400], [1.5, 4] has committed its record
C18_Witness ==
    /\ pc = [main |-> "data-hash", at |-> "committed"]
    /\ timestamps = <<U64FromNat(1), U64FromNat(86400)>>
    /\ values = <<Lit(15, -1), Lit(4, 0)>>
    /\ Len(committed) = 1
    /\ committed[1].abi_encode.mean = f64_to_u256(Lit(275, -2))
\* C19: every series obtained from TimeSeries::new or from a chain of
\* moving_average, exponential_moving_average and simple_exponential_smoothing
\* has as many timestamps as values; a transform adds a new series, and the
\* series it was called on, like every series obtained before, keeps its
\* timestamps and values.
LengthsAgree(series) ==
    Len(series.timestamps) = Len(series.values)

C19_Series ==
    /\ Built => LengthsAgree(made.res.val)
    /\ \A i \in 1..Len(chain) :
           /\ chain[i].self < i
           /\ LengthsAgree(chain[i].res)

C19_ReceiverKept ==
    /\ made.run => made' = made
    /\ Len(chain') >= Len(chain)
    /\ SubSeq(chain', 1, Len(chain)) = chain

C19_LengthsAgreeReceiverKept ==
    [](C19_Series) /\ [][C19_ReceiverKept]_vars

\* a forecast of a moving average: two steps longer than the input, which is
\* still there
C19_Witness ==
    /\ Built
    /\ Len(made.res.val.values) = 2
    /\ Len(chain) = 2
    /\ chain[1].op = "moving_average"
    /\ chain[2].op = "simple_exponential_smoothing"
    /\ chain[2].self = 1
    /\ Len(chain[2].res.timestamps) = 4
    /\ Len(chain[2].res.values) = 4
    /\ Len(chain[1].res.timestamps) = 2
    /\ made.res.val = [timestamps |-> timestamps, values |-> values]

\* ---- C20
\* C20: whenever simple_exponential_smoothing returns a series, no appended
\* timestamp comes from 64-bit wrap-around: timestamps[1] - timestamps[0] does
\* not underflow, i * step and last_timestamp + i * step do not overflow, so
\* every appended timestamp is >= the last input timestamp and the appended
\* timestamps do not decrease.
U64Le(a, b) ==
    U64Sub(b, a).borrow = 0

C20_NoWrapAround ==
    (out.op = "simple_exponential_smoothing" /\ out.res.ok) =>
        LET n    == Len(timestamps)
            got  == out.res.val.timestamps
            step == IF n > 1 THEN U64Sub(timestamps[2], timestamps[1])
                    ELSE [val |-> U64FromNat(1), borrow |-> 0]
        IN /\ horizon >= 1 => step.borrow = 0
           /\ \A i \in 1..horizon :
                  /\ U64Mul(step.val, i).carry = 0
                  /\ U64Add(timestamps[n], U64Mul(step.val, i).val).carry = 0
                  /\ U64Le(timestamps[n], got[n + i])
                  /\ U64Le(got[n + i - 1], got[n + i])

\* ---- C21
\* C21: the two copies of the codec agree.  For every x, f64_to_u256 of
\* crates/lib-timeseries and f64_to_u256 of lib both fail or both return the
\* same integer; and every integer that either encoder returns is decoded to
\* the same value by the two copies of u256_to_f64.
SameOutcome(a, b) ==
    /\ a.ok = b.ok
    /\ a.ok => a.val = b.val

C21_Encoded ==
    IF out.op \in {"f64_to_u256", "lib_f64_to_u256"} THEN out.res
    ELSE IF out.op \in {"round_trip", "lib_round_trip"} THEN out.enc
    ELSE Panic("not called")

C21_CopiesAgree ==
    /\ out.op = "f64_to_u256" => SameOutcome(out.res, lib_f64_to_u256(x))
    /\ out.op = "lib_f64_to_u256" => SameOutcome(Ok(f64_to_u256(x)), out.res)
    /\ C21_Encoded.ok =>
           u256_to_f64(C21_Encoded.val) = lib_u256_to_f64(C21_Encoded.val)

====
